---- MODULE Spec2Model ----
(***************************************************************************)
(* A model of pixelqart.py: the driver main(), the worker loop             *)
(* search_qrcode() run by a thread pool, and the pure raster functions     *)
(* split_design(), the compositing of search_qrcode() and eval_qrcode().   *)
(***************************************************************************)
EXTENDS Integers, Sequences, FiniteSets, TLC

(***************************************************************************)
(* Bounds of the model.                                                    *)
(***************************************************************************)
\* main's `concurrency` argument: the number of search_qrcode tasks submitted.
Concurrency == 2
\* The call on which the injected generation/validation stub accepts.
StubN == 2

(***************************************************************************)
(* Program constants.                                                      *)
(***************************************************************************)
QRCODE_SIZE == <<41, 41>>
QART_MARGIN == 4
\* The service renders the 49x49 code scaled up 4 times.
SCALE == 4
\* random.randrange(8), random.randrange(4)
MaskRange == 8
OrientRange == 4
\* for quality in range(1, 95+1)
MaxQuality == 95

Workers == 1..Concurrency

\* A size that counts the margin on one side only.
size_one_margin == <<QRCODE_SIZE[1] + QART_MARGIN, QRCODE_SIZE[2] + QART_MARGIN>>

\* size = (QRCODE_SIZE[0] + QART_MARGIN*2, QRCODE_SIZE[1] + QART_MARGIN*2)
size == <<QRCODE_SIZE[1] + QART_MARGIN * 2, QRCODE_SIZE[2] + QART_MARGIN * 2>>

(***************************************************************************)
(* The environment: what the file system, the two endpoints, the decoder   *)
(* and the random generator can hand to the program.                       *)
(***************************************************************************)
\* The design image as Image.open() reports it: its mode and its size.
DesignHeaders ==
    { [mode |-> "RGBA", size |-> QRCODE_SIZE],
      [mode |-> "RGB",  size |-> QRCODE_SIZE],
      [mode |-> "RGBA", size |-> <<QRCODE_SIZE[1] - 1, QRCODE_SIZE[2]>>] }

\* The upload response: its status code and the `i` values of its Location query.
UploadResponses ==
    { [status |-> 302, i |-> <<"h1">>],
      [status |-> 302, i |-> <<>>],
      [status |-> 200, i |-> <<"h1">>] }

\* A generation response: whether the quoted payload starts with the PNG data
\* marker, and the size of the raster it decodes to.
Responses ==
    { [marker |-> TRUE,  width |-> SCALE * size[1], height |-> SCALE * size[2]],
      [marker |-> FALSE, width |-> SCALE * size[1], height |-> SCALE * size[2]],
      [marker |-> TRUE,  width |-> size[1],         height |-> SCALE * size[2]] }

WellFormed == [marker |-> TRUE, width |-> SCALE * size[1], height |-> SCALE * size[2]]

\* What decode_barcode can return: a list of symbols, here their types.
Infos == { <<>>, <<"QRCODE">>, <<"QRCODE", "QRCODE">>, <<"EAN13">> }

\* The sampled (mask, orient, seed): the two ends of the mask and orient ranges,
\* and two of the 2^32 seeds (which exceed TLC's integers).
ParamChoices == { <<0, 0, 0>>, <<MaskRange - 1, OrientRange - 1, 1>> }

\* The scores eval_qrcode can return to the worker.
ScoreChoices == { 1, MaxQuality + 1 }

NoParams == <<0, 0, 0>>

\* The value of r before requests.post has returned.
NoResponse == [status |-> 0, i |-> <<>>]

VARIABLES
    stub,               \* the environment in force: "live", "nth" or "reject"
    genCalls,           \* the "nth" stub's count of generation calls served
    hit,                \* hit[w]: the stub served w's current candidate on call StubN
    header,             \* the design file's mode and size
    max_workers,        \* the thread pool's size
    mainPc,             \* the driver's position in main()
    uploaded_image_id,  \* the handle upload_image returned, "none" before
    uploads,            \* the number of upload requests made
    upload_r,           \* the upload response r, NoResponse before the upload
    found,              \* the Event: "none" before it is created, "unset", "set"
    submitted,          \* the number of ex.submit calls done
    interrupted,        \* a KeyboardInterrupt was raised in found.wait()
    closed,             \* necessary.close() was called
    wpc,                \* wpc[w]: task w's position in search_qrcode()
    params,             \* params[w]: the task's (mask, orient, seed)
    req,                \* req[w]: the `i` of the task's last generation request
    info,               \* info[w]: the decoder's last answer to the task
    canvas_size,        \* canvas_size[w]: the size of the task's canvas
    score,              \* score[w]: the task's fut.result()
    evals,              \* evals[w]: eval_qrcode computations the task submitted
    saves,              \* saves[w]: canvas.save calls the task made
    files,              \* the files written, as (score, mask, orient, seed)
    setters,            \* the tasks that called found.set()
    mainSet,            \* the driver called found.set()
    gensAfterStop,      \* gensAfterStop[w]: requests of w that returned after found was set
    malformed,          \* malformed[w]: w's last generation response failed an assert
    rpc,                \* the raster functions' position: "idle", "design", "split", ...
    design,             \* the pixels of the design image
    desired,            \* split_design's first result
    necessary,          \* split_design's second result
    qrcode,             \* the generated raster, resized to `size`
    canvas,             \* the composited candidate
    epc,                \* eval_qrcode's position: "idle", "call", "done", "failed"
    eval_size,          \* the size of the raster handed to eval_qrcode
    decoded,            \* decoded[q]: the decoder's answer at JPEG quality q
    quality,            \* the loop variable of eval_qrcode
    success             \* eval_qrcode's count, and its result

mainVars == <<header, upload_r, max_workers, mainPc, uploaded_image_id, uploads, found,
              submitted, interrupted, closed, mainSet>>
taskVars == <<wpc, params, req, info, canvas_size, score, evals, saves, files,
              setters, gensAfterStop, malformed>>
stubVars == <<stub, genCalls, hit>>
rasterVars == <<rpc, design, desired, necessary, qrcode, canvas>>
evalVars == <<epc, eval_size, decoded, quality, success>>
pureVars == <<rasterVars, evalVars>>
vars == <<stubVars, mainVars, taskVars, pureVars>>

(***************************************************************************)
(* The initial state: main() has been called and nothing has run yet.      *)
(***************************************************************************)
InitProgram ==
    /\ mainPc = "split"
    /\ uploaded_image_id = "none"
    /\ uploads = 0
    /\ upload_r = NoResponse
    /\ found = "none"
    /\ submitted = 0
    /\ interrupted = FALSE
    /\ closed = FALSE
    /\ mainSet = FALSE
    /\ wpc = [w \in Workers |-> "unsubmitted"]
    /\ params = [w \in Workers |-> NoParams]
    /\ req = [w \in Workers |-> "none"]
    /\ info = [w \in Workers |-> <<>>]
    /\ canvas_size = [w \in Workers |-> <<0, 0>>]
    /\ score = [w \in Workers |-> 0]
    /\ evals = [w \in Workers |-> 0]
    /\ saves = [w \in Workers |-> 0]
    /\ files = {}
    /\ setters = {}
    /\ gensAfterStop = [w \in Workers |-> 0]
    /\ malformed = [w \in Workers |-> FALSE]
    /\ genCalls = 0
    /\ hit = [w \in Workers |-> FALSE]

\* No raster is held and eval_qrcode is not called.
NoRaster == <<>>

RasterIdle ==
    /\ rpc = "idle"
    /\ design = NoRaster
    /\ desired = NoRaster
    /\ necessary = NoRaster
    /\ qrcode = NoRaster
    /\ canvas = NoRaster

EvalIdle ==
    /\ epc = "idle"
    /\ eval_size = <<0, 0>>
    /\ decoded = <<>>
    /\ success = 0
    /\ quality = 0

\* ThreadPoolExecutor(): the pool's size is fixed by the host, not by main().
PoolSizes == 1..Concurrency

Init ==
    /\ InitProgram
    /\ RasterIdle
    /\ EvalIdle
    /\ stub = "live"
    /\ header \in DesignHeaders
    /\ max_workers \in PoolSizes

(***************************************************************************)
(* The environment's answers under the stub in force.                      *)
(***************************************************************************)
ok(inf) == Len(inf) = 1 /\ inf[1] = "QRCODE"

EnvUploadResponses ==
    IF stub = "live" THEN UploadResponses ELSE { r \in UploadResponses : r.status = 302 /\ Len(r.i) > 0 }

EnvResponses == IF stub = "live" THEN Responses ELSE { WellFormed }

EnvInfos(w) ==
    CASE stub = "live"   -> Infos
      [] stub = "nth"    -> IF hit[w] THEN { i \in Infos : ok(i) } ELSE { i \in Infos : ~ok(i) }
      [] stub = "reject" -> { i \in Infos : ~ok(i) }

\* The "nth" stub counts the calls it serves; past StubN the count no longer matters.
StubServe(w) ==
    IF stub = "nth"
    THEN /\ genCalls' = IF genCalls > StubN THEN genCalls ELSE genCalls + 1
         /\ hit' = [hit EXCEPT ![w] = (genCalls + 1 = StubN)]
         /\ stub' = stub
    ELSE UNCHANGED stubVars

(***************************************************************************)
(* main()                                                                  *)
(***************************************************************************)
\* A split_design without the assert on the size.
split_design_ok_nosize(h) == h.mode = "RGBA"

\* desired, necessary = split_design(design_filename)
split_design_ok(h) == h.mode = "RGBA" /\ h.size = QRCODE_SIZE

MSplit ==
    /\ mainPc = "split"
    /\ mainPc' = IF split_design_ok(header) THEN "upload" ELSE "aborted"
    /\ UNCHANGED <<header, upload_r, max_workers, uploaded_image_id, uploads, found, submitted,
                   interrupted, closed, mainSet, taskVars, stubVars>>
    /\ UNCHANGED pureVars

\* upload_image: assert r.status_code == 302; return qs['i'][0]
upload_image_ok(r) == r.status = 302 /\ Len(r.i) > 0

MUpload ==
    /\ mainPc = "upload"
    /\ \E r \in EnvUploadResponses :
          /\ uploads' = uploads + 1
          /\ upload_r' = r
          /\ IF upload_image_ok(r)
             THEN /\ uploaded_image_id' = r.i[1]
                  /\ mainPc' = "event"
             ELSE /\ uploaded_image_id' = uploaded_image_id
                  /\ mainPc' = "aborted"
    /\ UNCHANGED <<header, max_workers, found, submitted, interrupted, closed, mainSet,
                   taskVars, stubVars>>
    /\ UNCHANGED pureVars

\* found = Event(); ex = ThreadPoolExecutor()
MEvent ==
    /\ mainPc = "event"
    /\ found' = "unset"
    /\ mainPc' = "submit"
    /\ UNCHANGED <<header, upload_r, max_workers, uploaded_image_id, uploads, submitted, interrupted,
                   closed, mainSet, taskVars, stubVars>>
    /\ UNCHANGED pureVars

\* for i in range(concurrency): ex.submit(search_qrcode, ...)
MSubmit ==
    /\ mainPc = "submit"
    /\ IF submitted < Concurrency
       THEN /\ submitted' = submitted + 1
            /\ wpc' = [wpc EXCEPT ![submitted + 1] = "queued"]
            /\ mainPc' = mainPc
       ELSE /\ mainPc' = "wait"
            /\ UNCHANGED <<submitted, wpc>>
    /\ UNCHANGED <<header, upload_r, max_workers, uploaded_image_id, uploads, found, interrupted,
                   closed, mainSet, params, req, info, canvas_size, score, evals, saves,
                   files, setters, gensAfterStop, malformed, stubVars>>
    /\ UNCHANGED pureVars

\* A wait that gives up on its own: found.wait(timeout).
MWaitReturn_timeout ==
    /\ mainPc = "wait"
    /\ mainPc' = "finally"
    /\ UNCHANGED <<header, upload_r, max_workers, uploaded_image_id, uploads, found,
                   submitted, interrupted, closed, mainSet, taskVars, stubVars>>
    /\ UNCHANGED pureVars

\* found.wait() returns once the Event is set.
MWaitReturn ==
    /\ mainPc = "wait"
    /\ found = "set"
    /\ mainPc' = "finally"
    /\ UNCHANGED <<header, upload_r, max_workers, uploaded_image_id, uploads, found, submitted,
                   interrupted, closed, mainSet, taskVars, stubVars>>
    /\ UNCHANGED pureVars

\* except KeyboardInterrupt: print('shutting down...')
MInterrupt ==
    /\ mainPc = "wait"
    /\ interrupted' = TRUE
    /\ mainPc' = "finally"
    /\ UNCHANGED <<header, upload_r, max_workers, uploaded_image_id, uploads, found, submitted,
                   closed, mainSet, taskVars, stubVars>>
    /\ UNCHANGED pureVars

\* A finally block that clears the Event instead of setting it.
MFinallySet_clear ==
    /\ mainPc = "finally"
    /\ found' = "unset"
    /\ mainSet' = TRUE
    /\ mainPc' = "shutdown"
    /\ UNCHANGED <<header, upload_r, max_workers, uploaded_image_id, uploads, submitted,
                   interrupted, closed, taskVars, stubVars>>
    /\ UNCHANGED pureVars

\* finally: found.set()
MFinallySet ==
    /\ mainPc = "finally"
    /\ found' = "set"
    /\ mainSet' = TRUE
    /\ mainPc' = "shutdown"
    /\ UNCHANGED <<header, upload_r, max_workers, uploaded_image_id, uploads, submitted, interrupted,
                   closed, taskVars, stubVars>>
    /\ UNCHANGED pureVars

Over(w) == wpc[w] \in {"exited", "crashed"}

\* A shutdown that does not wait for the tasks: ex.shutdown(wait=False).
ShutdownReturns_nowait == TRUE

\* ex.shutdown(): returns when every submitted task is over and the threads are joined.
ShutdownReturns == \A w \in Workers : wpc[w] = "unsubmitted" \/ Over(w)

MShutdown ==
    /\ mainPc = "shutdown"
    /\ ShutdownReturns
    /\ mainPc' = "close"
    /\ UNCHANGED <<header, upload_r, max_workers, uploaded_image_id, uploads, found, submitted,
                   interrupted, closed, mainSet, taskVars, stubVars>>
    /\ UNCHANGED pureVars

\* necessary.close()
MClose ==
    /\ mainPc = "close"
    /\ closed' = TRUE
    /\ mainPc' = "returned"
    /\ UNCHANGED <<header, upload_r, max_workers, uploaded_image_id, uploads, found, submitted,
                   interrupted, mainSet, taskVars, stubVars>>
    /\ UNCHANGED pureVars

(***************************************************************************)
(* The thread pool and search_qrcode()                                     *)
(***************************************************************************)
Running(w) == wpc[w] \notin {"unsubmitted", "queued", "exited", "crashed"}

\* A thread of the pool takes a queued task when fewer than max_workers run.
PoolHasThread == Cardinality({ v \in Workers : Running(v) }) < max_workers

WStart(w) ==
    /\ wpc[w] = "queued"
    /\ PoolHasThread
    /\ wpc' = [wpc EXCEPT ![w] = "top"]
    /\ UNCHANGED <<mainVars, stubVars, params, req, info, canvas_size, score, evals, saves,
                   files, setters, gensAfterStop, malformed>>
    /\ UNCHANGED pureVars

\* A loop that never looks at the Event.
StopSeen_never == FALSE

\* if found.is_set(): break
StopSeen == found = "set"

\* A url built with a handle other than the uploaded one.
RequestHandle_other == "h0"

\* f'i={uploaded_image_id}&': the handle every request carries.
RequestHandle == uploaded_image_id

\* The top of the loop: the check of found, the sampling, the request's url.
WCheckFound(w) ==
    /\ wpc[w] = "top"
    /\ IF StopSeen
       THEN /\ wpc' = [wpc EXCEPT ![w] = "exited"]
            /\ UNCHANGED <<params, req>>
       ELSE \E p \in ParamChoices :
               /\ params' = [params EXCEPT ![w] = p]
               /\ req' = [req EXCEPT ![w] = RequestHandle]
               /\ wpc' = [wpc EXCEPT ![w] = "get"]
    /\ UNCHANGED <<mainVars, stubVars, info, canvas_size, score, evals, saves, files,
                   setters, gensAfterStop, malformed>>
    /\ UNCHANGED pureVars

\* The asserts on the response: the data marker and the raster's size.
ResponseOk(r) ==
    /\ r.marker
    /\ r.width = SCALE * size[1]
    /\ r.height = SCALE * size[2]

\* A worker that catches the failed check and tries again.
AfterGet_retry(r) == IF ResponseOk(r) THEN "composite" ELSE "top"

\* Where the task goes once requests.get has returned.
AfterGet(r) == IF ResponseOk(r) THEN "composite" ELSE "crashed"

\* r = requests.get(url) returns; the payload is extracted and checked.
WGetReturn(w) ==
    /\ wpc[w] = "get"
    /\ \E r \in EnvResponses :
          /\ wpc' = [wpc EXCEPT ![w] = AfterGet(r)]
          /\ malformed' = [malformed EXCEPT ![w] = ~ResponseOk(r)]
    /\ gensAfterStop' = [gensAfterStop EXCEPT ![w] = IF found = "set" THEN @ + 1 ELSE @]
    /\ StubServe(w)
    /\ UNCHANGED <<mainVars, params, req, info, canvas_size, score, evals, saves, files,
                   setters>>
    /\ UNCHANGED pureVars

\* canvas = Image.new('RGBA', size); canvas.paste(qrcode); canvas.paste(necessary, ...)
WComposite(w) ==
    /\ wpc[w] = "composite"
    /\ IF closed
       THEN wpc' = [wpc EXCEPT ![w] = "crashed"] /\ UNCHANGED canvas_size
       ELSE /\ canvas_size' = [canvas_size EXCEPT ![w] = size]
            /\ wpc' = [wpc EXCEPT ![w] = "decode"]
    /\ UNCHANGED <<mainVars, stubVars, params, req, info, score, evals, saves, files,
                   setters, gensAfterStop, malformed>>
    /\ UNCHANGED pureVars

\* A worker that sets found as soon as its candidate is accepted.
AfterDecode_setfirst(inf) == IF ok(inf) THEN "set" ELSE "top"

\* The looser acceptance: any detected symbol, of any count or type.
AfterDecode_any(inf) == IF Len(inf) >= 1 THEN "eval" ELSE "top"

\* Where the task goes after the decode check: `if not ok: continue`.
AfterDecode(inf) == IF ok(inf) THEN "eval" ELSE "top"

\* info = decode_barcode(...); ok = (len(info) == 1 and info[0].type == 'QRCODE')
WDecode(w) ==
    /\ wpc[w] = "decode"
    /\ \E inf \in EnvInfos(w) :
          /\ info' = [info EXCEPT ![w] = inf]
          /\ wpc' = [wpc EXCEPT ![w] = AfterDecode(inf)]
    /\ UNCHANGED <<mainVars, stubVars, params, req, canvas_size, score, evals, saves, files,
                   setters, gensAfterStop, malformed>>
    /\ UNCHANGED pureVars

\* The asserts at the start of eval_qrcode.
eval_qrcode_accepts(sz) ==
    /\ sz[1] = QRCODE_SIZE[1] + QART_MARGIN * 2
    /\ sz[2] = QRCODE_SIZE[2] + QART_MARGIN * 2

\* with ProcessPoolExecutor(1) as ex: fut = ex.submit(eval_qrcode, canvas)
WEvalSubmit(w) ==
    /\ wpc[w] = "eval"
    /\ evals' = [evals EXCEPT ![w] = @ + 1]
    /\ wpc' = [wpc EXCEPT ![w] = "result"]
    /\ UNCHANGED <<mainVars, stubVars, params, req, info, canvas_size, score, saves, files,
                   setters, gensAfterStop, malformed>>
    /\ UNCHANGED pureVars

\* score = fut.result()
WEvalResult(w) ==
    /\ wpc[w] = "result"
    /\ IF eval_qrcode_accepts(canvas_size[w])
       THEN \E s \in ScoreChoices :
               /\ score' = [score EXCEPT ![w] = s]
               /\ wpc' = [wpc EXCEPT ![w] = "save"]
       ELSE wpc' = [wpc EXCEPT ![w] = "crashed"] /\ UNCHANGED score
    /\ UNCHANGED <<mainVars, stubVars, params, req, info, canvas_size, evals, saves, files,
                   setters, gensAfterStop, malformed>>
    /\ UNCHANGED pureVars

\* filename = f'{name}-{score}-m{mask}o{orient}s{seed}.png'
Filename(w) == <<score[w], params[w][1], params[w][2], params[w][3]>>

\* canvas.save(filename)
WSave(w) ==
    /\ wpc[w] = "save"
    /\ files' = files \cup { Filename(w) }
    /\ saves' = [saves EXCEPT ![w] = @ + 1]
    /\ wpc' = [wpc EXCEPT ![w] = "set"]
    /\ UNCHANGED <<mainVars, stubVars, params, req, info, canvas_size, score, evals,
                   setters, gensAfterStop, malformed>>
    /\ UNCHANGED pureVars

\* A winner that neither sets found nor leaves the loop.
WSetFound_loop(w) ==
    /\ wpc[w] = "set"
    /\ wpc' = [wpc EXCEPT ![w] = "top"]
    /\ UNCHANGED <<stubVars, mainVars, params, req, info, canvas_size, score, evals,
                   saves, files, setters, gensAfterStop, malformed>>
    /\ UNCHANGED pureVars

\* A winner that leaves the loop without found.set().
WSetFound_noset(w) ==
    /\ wpc[w] = "set"
    /\ wpc' = [wpc EXCEPT ![w] = "exited"]
    /\ UNCHANGED <<stubVars, mainVars, params, req, info, canvas_size, score, evals,
                   saves, files, setters, gensAfterStop, malformed>>
    /\ UNCHANGED pureVars

\* found.set(); break
WSetFound(w) ==
    /\ wpc[w] = "set"
    /\ found' = "set"
    /\ setters' = setters \cup {w}
    /\ wpc' = [wpc EXCEPT ![w] = "exited"]
    /\ UNCHANGED <<stubVars, header, upload_r, max_workers, mainPc, uploaded_image_id, uploads,
                   submitted, interrupted, closed, mainSet, params, req, info, canvas_size,
                   score, evals, saves, files, gensAfterStop, malformed>>
    /\ UNCHANGED pureVars

(***************************************************************************)
(* The specification of a run against the live service.                    *)
(***************************************************************************)
Next ==
    \/ MSplit
    \/ MUpload
    \/ MEvent
    \/ MSubmit
    \/ MWaitReturn
    \/ MInterrupt
    \/ MFinallySet
    \/ MShutdown
    \/ MClose
    \/ \E w \in Workers : WStart(w)
    \/ \E w \in Workers : WCheckFound(w)
    \/ \E w \in Workers : WGetReturn(w)
    \/ \E w \in Workers : WComposite(w)
    \/ \E w \in Workers : WDecode(w)
    \/ \E w \in Workers : WEvalSubmit(w)
    \/ \E w \in Workers : WEvalResult(w)
    \/ \E w \in Workers : WSave(w)
    \/ \E w \in Workers : WSetFound(w)

Spec == Init /\ [][Next]_vars

(***************************************************************************)
(* Threads are scheduled fairly and every blocking call returns.           *)
(***************************************************************************)
search_qrcode(w) ==
    \/ WStart(w)
    \/ WCheckFound(w)
    \/ WGetReturn(w)
    \/ WComposite(w)
    \/ WDecode(w)
    \/ WEvalSubmit(w)
    \/ WEvalResult(w)
    \/ WSave(w)
    \/ WSetFound(w)

\* The driver's own steps; an interruption is the user's, not the scheduler's.
main ==
    \/ MSplit
    \/ MUpload
    \/ MEvent
    \/ MSubmit
    \/ MWaitReturn
    \/ MFinallySet
    \/ MShutdown
    \/ MClose

Fairness == WF_vars(main) /\ \A w \in Workers : WF_vars(search_qrcode(w))

(***************************************************************************)
(* A run against the stub that accepts on generation call StubN only,      *)
(* with a well-formed design and upload, and no interruption.              *)
(***************************************************************************)
GoodHeader == [mode |-> "RGBA", size |-> QRCODE_SIZE]

InitStub ==
    /\ InitProgram
    /\ RasterIdle
    /\ EvalIdle
    /\ stub = "nth"
    /\ header = GoodHeader
    /\ max_workers \in PoolSizes

NextStub ==
    \/ MSplit
    \/ MUpload
    \/ MEvent
    \/ MSubmit
    \/ MWaitReturn
    \/ MFinallySet
    \/ MShutdown
    \/ MClose
    \/ \E w \in Workers : WStart(w)
    \/ \E w \in Workers : WCheckFound(w)
    \/ \E w \in Workers : WGetReturn(w)
    \/ \E w \in Workers : WComposite(w)
    \/ \E w \in Workers : WDecode(w)
    \/ \E w \in Workers : WEvalSubmit(w)
    \/ \E w \in Workers : WEvalResult(w)
    \/ \E w \in Workers : WSave(w)
    \/ \E w \in Workers : WSetFound(w)

SpecStub == InitStub /\ [][NextStub]_vars /\ Fairness

(***************************************************************************)
(* A run against the stub whose every candidate fails the decode check;    *)
(* the user may interrupt the driver in found.wait().                      *)
(***************************************************************************)
InitReject ==
    /\ InitProgram
    /\ RasterIdle
    /\ EvalIdle
    /\ stub = "reject"
    /\ header = GoodHeader
    /\ max_workers \in PoolSizes

NextReject ==
    \/ MSplit
    \/ MUpload
    \/ MEvent
    \/ MSubmit
    \/ MInterrupt
    \/ MFinallySet
    \/ MShutdown
    \/ MClose
    \/ \E w \in Workers : WStart(w)
    \/ \E w \in Workers : WCheckFound(w)
    \/ \E w \in Workers : WGetReturn(w)
    \/ \E w \in Workers : WComposite(w)
    \/ \E w \in Workers : WDecode(w)

SpecReject == InitReject /\ [][NextReject]_vars /\ Fairness

\* A run against the live service in which the scheduler is fair.
SpecFair == Init /\ [][Next]_vars /\ Fairness

(***************************************************************************)
(* Rasters: split_design() and the compositing of search_qrcode().         *)
(* A raster is a function from its positions (x, y) to RGBA pixels.        *)
(***************************************************************************)
Positions(sz) == (0..(sz[1] - 1)) \X (0..(sz[2] - 1))

NECESSARY_BLACK == <<0, 0, 255, 255>>
NECESSARY_WHITE == <<255, 255, 0, 255>>
BLACK == <<0, 0, 0, 255>>
WHITE == <<255, 255, 255, 255>>
\* The fill of Image.new('RGBA', ...) when no colour is given, and (0, 0, 0, 0).
TRANSPARENT == <<0, 0, 0, 0>>

\* Image.new('RGBA', sz, colour)
NewImage(sz, colour) == [pos \in Positions(sz) |-> colour]

\* The pixel values a design is drawn from: the two markers, transparent and
\* translucent pixels, real black and white, and colours one channel off a marker.
DesignPalette ==
    << NECESSARY_BLACK, TRANSPARENT, NECESSARY_WHITE, <<200, 30, 30, 255>>,
       BLACK, <<0, 0, 255, 128>>, WHITE, <<255, 255, 0, 0>> >>

PatternSteps == {0, 1, 3}

\* A design whose pixel at (x, y) is entry a*x + b*y + c of the palette.
Pattern(sz, a, b, c) ==
    [pos \in Positions(sz) |->
        DesignPalette[((a * pos[1] + b * pos[2] + c) % Len(DesignPalette)) + 1]]

\* All transparent but a marker-black pixel at (0, 0) and a marker-white at (40, 40).
TwoMarkers ==
    [pos \in Positions(QRCODE_SIZE) |->
        IF pos = <<0, 0>> THEN NECESSARY_BLACK
        ELSE IF pos = <<QRCODE_SIZE[1] - 1, QRCODE_SIZE[2] - 1>> THEN NECESSARY_WHITE
        ELSE TRANSPARENT]

Designs(h) ==
    IF split_design_ok(h)
    THEN { Pattern(h.size, a, b, c) :
             a \in PatternSteps, b \in PatternSteps, c \in 0..(Len(DesignPalette) - 1) }
         \cup { TwoMarkers }
    ELSE { Pattern(h.size, 1, 1, 0) }

\* The pixels the service may draw, after qrcode.resize(size).
GeneratedPalette == << BLACK, WHITE, TRANSPARENT, <<128, 128, 128, 255>> >>

Generated ==
    { [pos \in Positions(size) |->
          GeneratedPalette[((pos[1] + 2 * pos[2] + k) % Len(GeneratedPalette)) + 1]] :
      k \in 0..(Len(GeneratedPalette) - 1) }

\* A split that tests the white marker against the black one's colour.
split_pixel_swapped(p) ==
    IF p = NECESSARY_BLACK THEN <<BLACK, BLACK>>
    ELSE IF p = NECESSARY_BLACK THEN <<WHITE, WHITE>>
    ELSE <<p, TRANSPARENT>>

\* One pixel of split_design's loop: the (desired, necessary) pixels written.
split_pixel(p) ==
    IF p = NECESSARY_BLACK THEN <<BLACK, BLACK>>
    ELSE IF p = NECESSARY_WHITE THEN <<WHITE, WHITE>>
    ELSE <<p, TRANSPARENT>>

\* split_design's loop over itertools.product(range(img.width), range(img.height)).
split_design(pixels) ==
    [ desired   |-> [pos \in Positions(QRCODE_SIZE) |-> split_pixel(pixels[pos])[1]],
      necessary |-> [pos \in Positions(QRCODE_SIZE) |-> split_pixel(pixels[pos])[2]] ]

\* Pillow's DIV255 and BLEND: out*(255 - mask) + in*mask, divided by 255, rounded.
DIV255(a) == LET tmp == a + 128 IN ((tmp \div 256) + tmp) \div 256

BLEND(mask, out, in) == DIV255(out * (255 - mask) + in * mask)

\* im.paste(src): src replaces the region of im at (0, 0).
paste(im, src) ==
    [pos \in DOMAIN im |-> IF pos \in DOMAIN src THEN src[pos] ELSE im[pos]]

\* im.paste(src, box, mask=mask): every band is blended by the mask's alpha.
paste_mask(im, src, box, mask) ==
    [pos \in DOMAIN im |->
        LET at == <<pos[1] - box[1], pos[2] - box[2]>>
        IN  IF at \in DOMAIN src
            THEN [band \in 1..4 |-> BLEND(mask[at][4], im[pos][band], src[at][band])]
            ELSE im[pos]]

\* A compositing that pastes the generated raster over the necessary one.
composite_under(generated, nec) ==
    paste(paste_mask(NewImage(size, TRANSPARENT), nec, <<QART_MARGIN, QART_MARGIN>>, nec),
          generated)

\* canvas = Image.new('RGBA', size, (0, 0, 0, 0)); canvas.paste(qrcode);
\* canvas.paste(necessary, (QART_MARGIN, QART_MARGIN), mask=necessary)
composite(generated, nec) ==
    paste_mask(paste(NewImage(size, TRANSPARENT), generated),
               nec, <<QART_MARGIN, QART_MARGIN>>, nec)

\* desired, necessary = split_design(design_filename)
RSplit ==
    /\ rpc = "design"
    /\ IF split_design_ok(header)
       THEN /\ desired' = split_design(design).desired
            /\ necessary' = split_design(design).necessary
            /\ rpc' = "split"
       ELSE /\ rpc' = "failed"
            /\ UNCHANGED <<desired, necessary>>
    /\ UNCHANGED <<design, qrcode, canvas, evalVars, stubVars, mainVars, taskVars>>

\* One attempt's compositing of a generated raster with the necessary one.
RComposite ==
    /\ rpc = "split"
    /\ \E g \in Generated :
          /\ qrcode' = g
          /\ canvas' = composite(g, necessary)
    /\ rpc' = "composited"
    /\ UNCHANGED <<design, desired, necessary, evalVars, stubVars, mainVars, taskVars>>

InitRaster ==
    /\ InitProgram
    /\ EvalIdle
    /\ stub = "live"
    /\ max_workers = Concurrency
    /\ header \in DesignHeaders
    /\ design \in Designs(header)
    /\ rpc = "design"
    /\ desired = NoRaster
    /\ necessary = NoRaster
    /\ qrcode = NoRaster
    /\ canvas = NoRaster

NextRaster ==
    \/ RSplit
    \/ RComposite

SpecRaster == InitRaster /\ [][NextRaster]_vars

(***************************************************************************)
(* eval_qrcode(): the decoder's answers at the JPEG qualities are its input.*)
(***************************************************************************)
Qualities == 1..MaxQuality

\* Decodable from quality t upwards, with answer `bad` below.
DecodesFrom(t, bad) == [q \in Qualities |-> IF q >= t THEN <<"QRCODE">> ELSE bad]

\* Decodable at every k-th quality, with answer `bad` elsewhere.
DecodesEvery(k, bad) == [q \in Qualities |-> IF q % k = 0 THEN <<"QRCODE">> ELSE bad]

Periods == {2, 3, 4}

DecodeRuns ==
    LET Bad == { i \in Infos : ~ok(i) }
    IN  { DecodesFrom(t, bad) : t \in 1..(MaxQuality + 1), bad \in Bad }
        \cup { DecodesEvery(k, bad) : k \in Periods, bad \in Bad }

\* The sizes of the raster handed in: `size`, and one that fails the asserts.
EvalSizes == { size, <<size[1] - 1, size[2]>> }

\* A loop written range(1, 95): quality 95 is never tried.
LoopOver_short(q) == q > MaxQuality - 1

\* for quality in range(1, 95+1): the loop is over past quality 95.
LoopOver(q) == q > MaxQuality

\* A call of eval_qrcode: its asserts, then success = 1 and the first quality.
ECall ==
    /\ epc = "call"
    /\ IF eval_qrcode_accepts(eval_size)
       THEN /\ success' = 1
            /\ quality' = 1
            /\ epc' = "loop"
       ELSE /\ epc' = "failed"
            /\ UNCHANGED <<success, quality>>
    /\ UNCHANGED <<eval_size, decoded, rasterVars, stubVars, mainVars, taskVars>>

\* One turn of the loop: compress at `quality`, decode, count a success.
ELoop ==
    /\ epc = "loop"
    /\ ~LoopOver(quality)
    /\ success' = IF ok(decoded[quality]) THEN success + 1 ELSE success
    /\ quality' = quality + 1
    /\ UNCHANGED <<epc, eval_size, decoded, rasterVars, stubVars, mainVars, taskVars>>

\* return success
EReturn ==
    /\ epc = "loop"
    /\ LoopOver(quality)
    /\ epc' = "done"
    /\ UNCHANGED <<success, quality, eval_size, decoded, rasterVars, stubVars, mainVars,
                   taskVars>>

InitEval ==
    /\ InitProgram
    /\ RasterIdle
    /\ stub = "live"
    /\ max_workers = Concurrency
    /\ header = GoodHeader
    /\ epc = "call"
    /\ eval_size \in EvalSizes
    /\ decoded \in DecodeRuns
    /\ success = 0
    /\ quality = 0

NextEval ==
    \/ ECall
    \/ ELoop
    \/ EReturn

SpecEval == InitEval /\ [][NextEval]_vars

(***************************************************************************)
(* Properties of the search.                                               *)
(***************************************************************************)
RECURSIVE SumOver(_, _)
SumOver(f, S) ==
    IF S = {} THEN 0
    ELSE LET x == CHOOSE x \in S : TRUE IN f[x] + SumOver(f, S \ {x})

Persisting(w) == wpc[w] \in {"eval", "result", "save", "set"}

\* The outcomes persisted: the (mask, orient, seed) the written files name.
Outcomes == { <<f[2], f[3], f[4]>> : f \in files }

\* C1: at most one outcome is persisted per run: whatever the interleaving, the
\* workers' canvas.save calls never persist more than one outcome.
C1_AtMostOnePersisted == Cardinality(Outcomes) <= 1

\* C2: once found is set, no worker runs the decode check, submits the scoring
\* or calls canvas.save: a step taken while found is set does none of the three.
C2_NoWorkAfterFound ==
    [][ found = "set" =>
          /\ \A w \in Workers : wpc[w] = "decode" => wpc'[w] = "decode"
          /\ evals' = evals
          /\ saves' = saves ]_vars

\* The run is over with the one winner's file and every other task stopped.
C3_Final ==
    /\ Cardinality(files) = 1
    /\ SumOver(saves, Workers) = 1
    /\ Cardinality(setters) = 1
    /\ \A w \in Workers : wpc[w] = "exited"
    /\ \A w \in Workers \ setters : saves[w] = 0 /\ evals[w] = 0

\* C3: against the stub that accepts on call StubN only, the run terminates with
\* exactly one persisted outcome; every other worker exits on the stop flag
\* without persisting, and never is more than one outcome persisted.
C3_ExactlyOneWinner ==
    /\ <>(mainPc = "returned")
    /\ [](mainPc = "returned" => C3_Final)
    /\ [](SumOver(saves, Workers) <= 1)

\* The winner was served on call StubN, another task ran and left without saving.
C3_Witness ==
    /\ stub = "nth"
    /\ mainPc = "returned"
    /\ genCalls > StubN
    /\ \E w \in setters : hit[w] /\ saves[w] = 1
    /\ \E w \in Workers \ setters : req[w] # "none" /\ saves[w] = 0

\* C4: a driver interrupted in found.wait() has set the stop flag before it shuts
\* the pool down, and has not returned while any worker task is still to run or
\* running.
C4_InterruptShutsDown ==
    interrupted =>
        /\ mainPc \in {"finally", "shutdown", "close", "returned"}
        /\ mainPc \in {"shutdown", "close", "returned"} => found = "set" /\ mainSet
        /\ mainPc \in {"close", "returned"} => \A w \in Workers : Over(w)

\* The driver was interrupted while a request was in flight, and has returned.
C4_Witness ==
    /\ interrupted
    /\ mainPc = "returned"
    /\ setters = {}
    /\ \E w \in Workers : gensAfterStop[w] = 1

\* C5: when every candidate fails the decode check, nothing is persisted, nobody
\* but the driver sets found, and no worker leaves its loop before found is set;
\* once found is set a worker completes at most one more request; and an
\* interrupted driver reaches the end of main with every worker joined and the
\* Necessary Raster released.
C5_RejectUntilInterrupted ==
    /\ [](files = {} /\ setters = {} /\ SumOver(saves, Workers) = 0)
    /\ [](\A w \in Workers : Over(w) => wpc[w] = "exited" /\ found = "set")
    /\ [](\A w \in Workers : gensAfterStop[w] <= 1)
    /\ [](mainPc = "returned" => closed /\ \A w \in Workers : wpc[w] = "exited")
    /\ (interrupted ~> mainPc = "returned")

\* The interrupted driver is done; one worker finished a request after the stop.
C5_Witness ==
    /\ stub = "reject"
    /\ interrupted
    /\ mainPc = "returned"
    /\ closed
    /\ \E w \in Workers : gensAfterStop[w] = 1 /\ ~ok(info[w])

\* C8: in every candidate, wherever the Necessary Raster is opaque the pixel at
\* (x + margin, y + margin) is the Necessary Raster's, whatever was generated
\* there; wherever it is transparent the generated pixel is kept, as it is in
\* the margin.
C8_NecessaryOnTop ==
    rpc = "composited" =>
        /\ DOMAIN canvas = Positions(size)
        /\ \A pos \in Positions(QRCODE_SIZE) :
              LET at == <<pos[1] + QART_MARGIN, pos[2] + QART_MARGIN>>
              IN  /\ necessary[pos][4] \in {0, 255}
                  /\ necessary[pos][4] = 255 => canvas[at] = necessary[pos]
                  /\ necessary[pos][4] = 0 => canvas[at] = qrcode[at]
        /\ \A at \in Positions(size) :
              <<at[1] - QART_MARGIN, at[2] - QART_MARGIN>> \notin Positions(QRCODE_SIZE)
                  => canvas[at] = qrcode[at]

\* A necessary black pixel overrides a generated white one, and a generated
\* pixel shows through a transparent necessary one.
C8_Witness ==
    /\ rpc = "composited"
    /\ \E pos \in Positions(QRCODE_SIZE) :
          LET at == <<pos[1] + QART_MARGIN, pos[2] + QART_MARGIN>>
          IN  necessary[pos] = BLACK /\ qrcode[at] = WHITE /\ canvas[at] = BLACK
    /\ \E pos \in Positions(QRCODE_SIZE) :
          LET at == <<pos[1] + QART_MARGIN, pos[2] + QART_MARGIN>>
          IN  necessary[pos] = TRANSPARENT /\ qrcode[at] = WHITE /\ canvas[at] = WHITE

\* The marker positions of the design, and the opaque positions of a raster.
Markers(px, colour) == { pos \in DOMAIN px : px[pos] = colour }
Opaque(px) == { pos \in DOMAIN px : px[pos][4] = 255 }

\* C9: split_design maps each pixel on its own: marker black gives opaque black
\* in both rasters, marker white opaque white in both, any other pixel is copied
\* to Desired and left transparent in Necessary; so the opaque pixels of
\* Necessary are the marker positions, black on the blue and white on the yellow.
C9_SplitPerPixel ==
    rpc \in {"split", "composited"} =>
        /\ DOMAIN desired = Positions(QRCODE_SIZE)
        /\ DOMAIN necessary = Positions(QRCODE_SIZE)
        /\ \A pos \in Positions(QRCODE_SIZE) :
              /\ design[pos] = <<0, 0, 255, 255>> =>
                    desired[pos] = <<0, 0, 0, 255>> /\ necessary[pos] = <<0, 0, 0, 255>>
              /\ design[pos] = <<255, 255, 0, 255>> =>
                    /\ desired[pos] = <<255, 255, 255, 255>>
                    /\ necessary[pos] = <<255, 255, 255, 255>>
              /\ design[pos] \notin { <<0, 0, 255, 255>>, <<255, 255, 0, 255>> } =>
                    desired[pos] = design[pos] /\ necessary[pos] = <<0, 0, 0, 0>>
        /\ Opaque(necessary) =
              Markers(design, <<0, 0, 255, 255>>) \cup Markers(design, <<255, 255, 0, 255>>)
        /\ Markers(necessary, <<0, 0, 0, 255>>) = Markers(design, <<0, 0, 255, 255>>)
        /\ Markers(necessary, <<255, 255, 255, 255>>) = Markers(design, <<255, 255, 0, 255>>)

\* The two-marker design was split: Necessary holds exactly its two pixels.
C9_Witness ==
    /\ rpc = "split"
    /\ design[<<0, 0>>] = NECESSARY_BLACK
    /\ design[<<40, 40>>] = NECESSARY_WHITE
    /\ Opaque(necessary) = { <<0, 0>>, <<40, 40>> }
    /\ necessary[<<0, 0>>] = BLACK
    /\ necessary[<<40, 40>>] = WHITE
    /\ desired[<<1, 1>>] = TRANSPARENT

\* C10: eval_qrcode returns 1 plus the number of qualities in 1..95 at which the
\* answer is exactly one QRCODE symbol: a value in 1..96, 1 when no quality
\* decodes and 96 when all 95 do.
C10_ScoreCounts ==
    epc = "done" =>
        LET Good == { q \in 1..95 : Len(decoded[q]) = 1 /\ decoded[q][1] = "QRCODE" }
        IN  /\ success = 1 + Cardinality(Good)
            /\ success \in 1..96
            /\ Good = {} => success = 1
            /\ Good = 1..95 => success = 96

\* A candidate that decodes at the upper qualities only, two symbols below.
C10_Witness ==
    /\ epc = "done"
    /\ success > 1
    /\ success < 96
    /\ Len(decoded[1]) = 2
    /\ decoded[95] = <<"QRCODE">>

\* C6: eval_qrcode is computed at most once per run: no two scoring computations
\* are ever submitted.
C6_ScoredAtMostOnce == SumOver(evals, Workers) <= 1

\* C7: a worker is on the score/persist/set-found path only with an answer of
\* exactly one QRCODE symbol; on any other answer the decode step sets nothing,
\* persists nothing and returns the worker to the top of its loop.
C7_AcceptOnlyOneQRCode ==
    /\ [](\A w \in Workers : Persisting(w) => ok(info[w]))
    /\ [][ \A w \in Workers :
             (wpc[w] = "decode" /\ wpc'[w] # "decode") =>
                IF ok(info'[w])
                THEN wpc'[w] = "eval"
                ELSE /\ wpc'[w] = "top"
                     /\ found' = found
                     /\ files' = files
                     /\ saves' = saves
                     /\ evals' = evals
                     /\ setters' = setters ]_vars

\* One worker was accepted while another was turned back on two symbols.
C7_Witness ==
    \E w, v \in Workers :
        /\ wpc[w] = "eval" /\ info[w] = <<"QRCODE">>
        /\ wpc[v] = "top" /\ Len(info[v]) = 2

\* Nothing of the search has happened: no Event, no task, no request, no file.
NothingStarted ==
    /\ found = "none"
    /\ submitted = 0
    /\ \A w \in Workers : wpc[w] = "unsubmitted" /\ req[w] = "none"
    /\ files = {}
    /\ setters = {}
    /\ ~mainSet

\* C11: a design that is not RGBA or not 41x41, or an upload response that is not
\* a 302 carrying an `i` handle, aborts the run before any worker is started: no
\* generation request is issued, found is never created or set, and nothing is
\* persisted.
C11_AbortBeforeSearch ==
    /\ (header.mode # "RGBA" \/ header.size # <<41, 41>>) =>
          mainPc \in {"split", "aborted"} /\ uploads = 0 /\ NothingStarted
    /\ (uploads > 0 /\ (upload_r.status # 302 \/ Len(upload_r.i) = 0)) =>
          mainPc = "aborted" /\ uploaded_image_id = "none" /\ NothingStarted
    /\ mainPc = "aborted" => NothingStarted

\* The design was good, the upload was answered 200 and the run is aborted.
C11_Witness ==
    /\ mainPc = "aborted"
    /\ header.mode = "RGBA"
    /\ header.size = <<41, 41>>
    /\ uploads = 1
    /\ upload_r.status = 200
    /\ NothingStarted

\* C12: a malformed generation response ends only the worker that received it:
\* that worker is over for good, having set and persisted nothing, and the step
\* on which it fails leaves found, the files, the driver and every other task
\* as they were.
C12_MalformedEndsOneWorker ==
    /\ [](\A w \in Workers :
            malformed[w] =>
               /\ wpc[w] = "crashed"
               /\ saves[w] = 0
               /\ evals[w] = 0
               /\ w \notin setters)
    /\ [][ \A w \in Workers :
             (~malformed[w] /\ malformed'[w]) =>
                /\ found' = found
                /\ files' = files
                /\ setters' = setters
                /\ mainPc' = mainPc
                /\ \A v \in Workers \ {w} : wpc'[v] = wpc[v] ]_vars
    /\ [][ \A w \in Workers : wpc[w] = "crashed" => wpc'[w] = "crashed" ]_vars

\* One worker failed on its response; the search is still on and another
\* worker has since got a well-formed response.
C12_Witness ==
    \E w, v \in Workers :
        /\ malformed[w]
        /\ wpc[w] = "crashed"
        /\ found = "unset"
        /\ wpc[v] = "decode"
        /\ ~malformed[v]

C14_ReleaseAfterWorkers ==
    /\ [](closed =>
            /\ found = "set"
            /\ mainSet
            /\ submitted = Concurrency
            /\ \A w \in Workers : Over(w))
    /\ [](\A w \in Workers : wpc[w] = "crashed" => malformed[w])
    /\ [][ closed => \A w \in Workers : wpc'[w] = wpc[w] /\ canvas_size'[w] = canvas_size[w] ]_vars
    /\ [][ (\E w \in Workers : wpc'[w] # wpc[w]) => necessary' = necessary ]_vars

\* The raster is released after a worker that composited with it has left.
C14_Witness ==
    /\ closed
    /\ mainPc = "returned"
    /\ \E w \in Workers : canvas_size[w] = <<49, 49>> /\ wpc[w] = "exited"

\* C15: found moves forward only: it is created unset, it is set only by a worker
\* whose candidate was accepted (scored and saved) or by the driver's finally
\* block, and once set it is never cleared.
C15_FoundForwardOnly ==
    /\ [](found \in {"none", "unset", "set"})
    /\ [](found = "set" => mainSet \/ setters # {})
    /\ [][ found = "none" => found' \in {"none", "unset"} ]_vars
    /\ [][ found = "set" => found' = "set" ]_vars
    /\ [][ (found = "unset" /\ found' = "set") =>
             \/ mainPc = "finally" /\ mainPc' = "shutdown"
             \/ \E w \in Workers :
                   /\ wpc[w] = "set"
                   /\ wpc'[w] = "exited"
                   /\ ok(info[w])
                   /\ saves[w] = 1 ]_vars

\* found was set by a worker and set again by the driver's finally block.
C15_Witness ==
    /\ found = "set"
    /\ setters # {}
    /\ mainSet
    /\ ~interrupted

\* C16: every candidate a worker builds is 49x49, the 41x41 grid plus twice the
\* margin of 4, so eval_qrcode's asserts on the size pass whenever search_qrcode
\* calls it: a worker waiting for its score goes on to save.
C16_CandidateIs49 ==
    /\ [](\A w \in Workers :
            wpc[w] \in {"decode", "eval", "result", "save", "set"} =>
               /\ canvas_size[w] = <<49, 49>>
               /\ canvas_size[w] = <<41 + 2 * 4, 41 + 2 * 4>>
               /\ eval_qrcode_accepts(canvas_size[w]))
    /\ [][ \A w \in Workers :
             wpc[w] = "result" => wpc'[w] \in {"result", "save"} ]_vars

\* A worker's candidate passed eval_qrcode's asserts and was scored.
C16_Witness ==
    \E w \in Workers :
        /\ wpc[w] = "save"
        /\ canvas_size[w] = <<49, 49>>
        /\ evals[w] = 1
        /\ score[w] \in ScoreChoices

\* C17: the N submitted tasks all run at once on a pool of N threads: a task
\* that was submitted never has to wait for another task to finish before it
\* starts its loop.
C17_AllRunAtOnce ==
    \A w \in Workers : wpc[w] = "queued" => PoolHasThread

AllCrashed == \A w \in Workers : wpc[w] = "crashed"

\* C18: once every worker task has ended on a failed assert, nothing has set or
\* will set found: the tasks stay ended, and unless it is interrupted the driver
\* stays in found.wait() with found unset, so the run does not terminate.
C18_AllCrashedBlocksDriver ==
    /\ []((AllCrashed /\ ~interrupted) =>
             /\ found = "unset"
             /\ mainPc \in {"submit", "wait"}
             /\ files = {}
             /\ setters = {}
             /\ ~mainSet)
    /\ []((AllCrashed /\ mainPc = "wait") =>
             /\ ~ENABLED main
             /\ \A w \in Workers : ~ENABLED search_qrcode(w))
    /\ [][ AllCrashed => AllCrashed' ]_vars
    /\ [][ (AllCrashed /\ mainPc = "wait" /\ mainPc' # "wait") =>
             ~interrupted /\ interrupted' ]_vars

\* Every task has failed on its response and the driver waits on an unset Event.
C18_Witness ==
    /\ AllCrashed
    /\ \A w \in Workers : malformed[w]
    /\ mainPc = "wait"
    /\ found = "unset"
    /\ ~interrupted

\* C19: a worker sets found only after its candidate was scored and saved: the
\* file of every worker that set found is written, and a driver that left
\* found.wait() without an interruption finds at least one outcome persisted.
C19_SavedBeforeSet ==
    /\ \A w \in setters :
          /\ evals[w] = 1
          /\ saves[w] = 1
          /\ Filename(w) \in files
    /\ \A w \in Workers : wpc[w] = "set" => saves[w] = 1 /\ Filename(w) \in files
    /\ (found = "set" /\ ~mainSet) => files # {}
    /\ (mainPc \in {"finally", "shutdown", "close", "returned"} /\ ~interrupted) =>
          setters # {} /\ files # {}

\* An uninterrupted run has returned with a worker's file written.
C19_Witness ==
    /\ mainPc = "returned"
    /\ ~interrupted
    /\ \E w \in setters : Filename(w) \in files

\* C20: a worker persists at most one outcome and sets found at most once, for
\* it is out of its loop once it has saved and set; so no more outcomes are
\* persisted than worker tasks were submitted.
C20_OneSavePerWorker ==
    /\ [](\A w \in Workers : saves[w] <= 1 /\ evals[w] <= 1)
    /\ [](\A w \in Workers : saves[w] = 1 => wpc[w] \in {"set", "exited"})
    /\ [](\A w \in setters : wpc[w] = "exited")
    /\ [](SumOver(saves, Workers) <= submitted)
    /\ [](Cardinality(files) <= submitted)
    /\ [][ \A w \in Workers : wpc[w] = "exited" => wpc'[w] = "exited" ]_vars
    /\ [][ \A w \in Workers : w \in setters => w \in setters' /\ saves'[w] = saves[w] ]_vars

\* Every submitted task has persisted its one outcome and left.
C20_Witness ==
    /\ \A w \in Workers : saves[w] = 1 /\ wpc[w] = "exited" /\ w \in setters
    /\ SumOver(saves, Workers) = submitted

====
